---- MODULE Spec2Model ----
(***************************************************************************)
(* The design -> grammar compiler of scripts/design_to_grammar.py.         *)
(*                                                                         *)
(* Text is a sequence of one-character strings.  Python floats are IEEE    *)
(* binary64 values, kept here as mantissa * 2^exponent with a 53 bit       *)
(* mantissa held in limbs, so that "/", "-" and "<=" round as they do in   *)
(* the program.                                                            *)
(***************************************************************************)
EXTENDS Integers, Sequences, FiniteSets, TLC

(***************************************************************************)
(* Characters and text.                                                    *)
(***************************************************************************)
Digits == <<"0", "1", "2", "3", "4", "5", "6", "7", "8", "9">>

Lowers == <<"a", "b", "c", "d", "e", "f", "g", "h", "i", "j", "k", "l", "m",
            "n", "o", "p", "q", "r", "s", "t", "u", "v", "w", "x", "y", "z">>

Uppers == <<"A", "B", "C", "D", "E", "F", "G", "H", "I", "J", "K", "L", "M",
            "N", "O", "P", "Q", "R", "S", "T", "U", "V", "W", "X", "Y", "Z">>

\* str.upper() / str.lower() on one character
UpperChar(ch) ==
    IF \E i \in DOMAIN Lowers : Lowers[i] = ch
    THEN Uppers[CHOOSE i \in DOMAIN Lowers : Lowers[i] = ch]
    ELSE ch

LowerChar(ch) ==
    IF \E i \in DOMAIN Uppers : Uppers[i] = ch
    THEN Lowers[CHOOSE i \in DOMAIN Uppers : Uppers[i] = ch]
    ELSE ch

\* str(n) for a non-negative int
RECURSIVE IntToStr(_)
IntToStr(n) ==
    IF n < 10 THEN <<Digits[n + 1]>>
    ELSE IntToStr(n \div 10) \o <<Digits[(n % 10) + 1]>>

\* sep.join(parts)
RECURSIVE Join(_, _)
Join(sep, parts) ==
    IF parts = <<>> THEN <<>>
    ELSE IF Len(parts) = 1 THEN parts[1]
    ELSE parts[1] \o sep \o Join(sep, Tail(parts))

\* s.rstrip(ch)
RECURSIVE RStrip(_, _)
RStrip(s, ch) ==
    IF s # <<>> /\ s[Len(s)] = ch THEN RStrip(SubSeq(s, 1, Len(s) - 1), ch)
    ELSE s

\* the one element of a singleton; { e(v) : v \in {x} } computes x once for e
The(S) == CHOOSE x \in S : TRUE

(***************************************************************************)
(* Unbounded naturals: little-endian limbs, no leading zero limb.          *)
(***************************************************************************)
LimbBits == 15

LimbBase == 2 ^ LimbBits

RECURSIVE BNorm(_)
BNorm(a) ==
    IF a # <<>> /\ a[Len(a)] = 0 THEN BNorm(SubSeq(a, 1, Len(a) - 1)) ELSE a

RECURSIVE BFromNat(_)
BFromNat(n) ==
    IF n = 0 THEN <<>> ELSE <<n % LimbBase>> \o BFromNat(n \div LimbBase)

RECURSIVE BToNat(_)
BToNat(a) ==
    IF a = <<>> THEN 0 ELSE a[1] + LimbBase * BToNat(Tail(a))

\* -1, 0, 1 as a < b, a = b, a > b, comparing limbs i..1 of equally long a, b
RECURSIVE BCmpFrom(_, _, _)
BCmpFrom(a, b, i) ==
    IF i = 0 THEN 0
    ELSE IF a[i] < b[i] THEN -1
    ELSE IF a[i] > b[i] THEN 1
    ELSE BCmpFrom(a, b, i - 1)

BCmp(a, b) ==
    IF Len(a) < Len(b) THEN -1
    ELSE IF Len(a) > Len(b) THEN 1
    ELSE BCmpFrom(a, b, Len(a))

\* a - b for a >= b
RECURSIVE BSubFrom(_, _, _, _)
BSubFrom(a, b, i, borrow) ==
    IF i > Len(a) THEN <<>>
    ELSE LET d == a[i] - (IF i <= Len(b) THEN b[i] ELSE 0) - borrow
         IN  IF d < 0 THEN <<d + LimbBase>> \o BSubFrom(a, b, i + 1, 1)
             ELSE <<d>> \o BSubFrom(a, b, i + 1, 0)

BSub(a, b) == BNorm(BSubFrom(a, b, 1, 0))

\* a * k + carry for a small k
RECURSIVE BMulSmallFrom(_, _, _, _)
BMulSmallFrom(a, k, i, carry) ==
    IF i > Len(a) THEN (IF carry = 0 THEN <<>> ELSE <<carry>>)
    ELSE LET v == a[i] * k + carry
         IN  <<v % LimbBase>> \o BMulSmallFrom(a, k, i + 1, v \div LimbBase)

BMulSmall(a, k) == BNorm(BMulSmallFrom(a, k, 1, 0))

BDouble(a) == BMulSmall(a, 2)

BSucc(a) == BNorm(BMulSmallFrom(a, 1, 1, 1))

\* a \div 2, from the top limb down
RECURSIVE BHalveFrom(_, _, _)
BHalveFrom(a, i, carry) ==
    IF i = 0 THEN <<>>
    ELSE BHalveFrom(a, i - 1, a[i] % 2) \o <<(carry * LimbBase + a[i]) \div 2>>

BHalve(a) == BNorm(BHalveFrom(a, Len(a), 0))

BOdd(a) == a # <<>> /\ a[1] % 2 = 1

RECURSIVE NatBitLen(_)
NatBitLen(n) == IF n = 0 THEN 0 ELSE 1 + NatBitLen(n \div 2)

BBitLen(a) ==
    IF a = <<>> THEN 0 ELSE (Len(a) - 1) * LimbBits + NatBitLen(a[Len(a)])

\* a * 2^k: whole limbs first, then the remaining bits
BShl(a, k) ==
    IF a = <<>> THEN a
    ELSE [i \in 1..(k \div LimbBits) |-> 0] \o BMulSmall(a, 2 ^ (k % LimbBits))

(***************************************************************************)
(* Binary64 values m * 2^e, m = 0 or 2^52 <= m < 2^53, non-negative.        *)
(***************************************************************************)
MantissaBits == 53

\* [m, round, sticky] after dropping the low bit of s.m: round is the bit
\* dropped last, sticky whether a bit dropped before it was set
DropBit(s) == [m |-> BHalve(s.m), round |-> BOdd(s.m), sticky |-> s.sticky \/ s.round]

\* DropBit k times (the first half of the steps, then the rest)
RECURSIVE DropBits(_, _)
DropBits(s, k) ==
    IF k = 0 THEN s
    ELSE IF k = 1 THEN DropBit(s)
    ELSE The({ DropBits(mid, k - (k \div 2)) : mid \in {DropBits(s, k \div 2)} })

\* round-half-even of (m + fraction) / 2^k, the fraction being non-zero iff sticky
RoundShift(m, k, sticky) ==
    The({ IF d.round /\ (d.sticky \/ BOdd(d.m)) THEN BSucc(d.m) ELSE d.m
          : d \in {DropBits([m |-> m, round |-> FALSE, sticky |-> sticky], k)} })

\* the binary64 nearest to (m + fraction) * 2^e
RECURSIVE RoundToFloat(_, _, _)
RoundToFloat(m, e, sticky) ==
    LET len == BBitLen(m)
    IN  IF m = <<>> THEN [m |-> <<>>, e |-> 0]
        ELSE IF len <= MantissaBits
        THEN [m |-> BShl(m, MantissaBits - len), e |-> e - (MantissaBits - len)]
        ELSE The({ RoundToFloat(r, e + (len - MantissaBits), FALSE)
                   : r \in {RoundShift(m, len - MantissaBits, sticky)} })

\* float(n) for an int n >= 0
FloatFromInt(n) == RoundToFloat(BFromNat(n), 0, FALSE)

\* one more quotient bit of s.r / d
DivStep(s, d) ==
    The({ IF BCmp(r2, d) >= 0 THEN [q |-> BSucc(BDouble(s.q)), r |-> BSub(r2, d)]
          ELSE [q |-> BDouble(s.q), r |-> r2]
          : r2 \in {BDouble(s.r)} })

\* DivStep k times (the first half of the steps, then the rest)
RECURSIVE DivBits(_, _, _)
DivBits(s, d, k) ==
    IF k = 0 THEN s
    ELSE IF k = 1 THEN DivStep(s, d)
    ELSE The({ DivBits(mid, d, k - (k \div 2)) : mid \in {DivBits(s, d, k \div 2)} })

\* x / y, y > 0
FloatDiv(x, y) ==
    IF x.m = <<>> THEN x
    ELSE The({ RoundToFloat(qr.q, x.e - y.e - (MantissaBits + 2), qr.r # <<>>)
               : qr \in {IF BCmp(x.m, y.m) >= 0
                         THEN DivBits([q |-> <<1>>, r |-> BSub(x.m, y.m)], y.m,
                                      MantissaBits + 2)
                         ELSE DivBits([q |-> <<>>, r |-> x.m], y.m, MantissaBits + 2)} })

\* abs(x - y)
FloatAbsDiff(x, y) ==
    LET e == IF x.e < y.e THEN x.e ELSE y.e
    IN  The({ The({ RoundToFloat(d, e, FALSE)
                    : d \in {IF BCmp(a, b) >= 0 THEN BSub(a, b) ELSE BSub(b, a)} })
              : a \in {BShl(x.m, x.e - e)}, b \in {BShl(y.m, y.e - e)} })

\* x <= y
FloatLeq(x, y) ==
    IF x.m = <<>> THEN TRUE
    ELSE IF y.m = <<>> THEN FALSE
    ELSE IF x.e # y.e THEN x.e < y.e
    ELSE BCmp(x.m, y.m) <= 0

\* the digits of f"{x:.1f}": x to one decimal, round-half-even on its exact value
FormatFixed1(x) ==
    The({ IntToStr(tenths \div 10) \o <<".">> \o <<Digits[(tenths % 10) + 1]>>
          : tenths \in {BToNat(IF x.e >= 0 THEN BShl(BMulSmall(x.m, 10), x.e)
                               ELSE RoundShift(BMulSmall(x.m, 10), 0 - x.e, FALSE))} })

(***************************************************************************)
(* Formatter: format_count, is_balanced, to_camel_case,                    *)
(* format_factor_counts.                                                   *)
(***************************************************************************)
Thousand == 1000

Million == 1000000

\* f"~{count / unit:.1f}{suffix}".rstrip('0').rstrip('.')
ApproxText(count, unit, suffix) ==
    The({ RStrip(RStrip(<<"~">> \o digits \o <<suffix>>, "0"), ".")
          : digits \in { FormatFixed1(q)
                         : q \in {FloatDiv(a, b) : a \in {FloatFromInt(count)},
                                                   b \in {FloatFromInt(unit)}} } })

format_count(count, approximate) ==
    IF approximate /\ count >= Thousand
    THEN IF count >= Million THEN ApproxText(count, Million, "m")
         ELSE ApproxText(count, Thousand, "k")
    ELSE IntToStr(count)

\* the default tolerance, the float literal 0.1
Tolerance == The({ FloatDiv(a, b) : a \in {FloatFromInt(1)}, b \in {FloatFromInt(10)} })

\* abs(c - avg) / avg <= tolerance
WithinTolerance(c, avg, tolerance) ==
    \E d \in { FloatAbsDiff(x, avg) : x \in {FloatFromInt(c)} } :
        \E q \in {FloatDiv(d, avg)} : FloatLeq(q, tolerance)

RECURSIVE Sum(_)
Sum(counts) == IF counts = <<>> THEN 0 ELSE counts[1] + Sum(Tail(counts))

is_balanced(counts, tolerance) ==
    IF counts = <<>> \/ Len(counts) = 1 THEN TRUE
    ELSE \E avg \in { FloatDiv(a, b) : a \in {FloatFromInt(Sum(counts))},
                                        b \in {FloatFromInt(Len(counts))} } :
            IF avg.m = <<>> THEN TRUE
            ELSE \A i \in DOMAIN counts : WithinTolerance(counts[i], avg, tolerance)

\* name.replace('_', ' ')
ReplaceUnderscores(name) ==
    [i \in DOMAIN name |-> IF name[i] = "_" THEN " " ELSE name[i]]

\* s.split(): the maximal runs of non-blank characters; word is the run being read
RECURSIVE SplitWords(_, _)
SplitWords(s, word) ==
    IF s = <<>> THEN (IF word = <<>> THEN <<>> ELSE <<word>>)
    ELSE IF s[1] = " "
    THEN (IF word = <<>> THEN <<>> ELSE <<word>>) \o SplitWords(Tail(s), <<>>)
    ELSE SplitWords(Tail(s), Append(word, s[1]))

\* word.capitalize()
Capitalize(word) ==
    [i \in DOMAIN word |-> IF i = 1 THEN UpperChar(word[i]) ELSE LowerChar(word[i])]

to_camel_case(name) ==
    LET words == SplitWords(ReplaceUnderscores(name), <<>>)
    IN  Join(<<>>, [i \in DOMAIN words |-> Capitalize(words[i])])

format_factor_counts(factor_name, categories, counts, approximate) ==
    LET n_categories == Len(categories)
        name == to_camel_case(factor_name)
    IN  IF is_balanced(counts, Tolerance)
        THEN name \o <<"(">> \o format_count(n_categories, FALSE) \o <<")">>
        ELSE The({ name \o <<"[">> \o Join(<<"|">>, count_strs) \o <<"]">>
                   : count_strs \in {[i \in DOMAIN counts |->
                                         format_count(counts[i], approximate)]} })

(***************************************************************************)
(* Design documents.  "factors" is the mapping in declaration order, a     *)
(* sequence of [name, data] items; a relationship is a record holding the  *)
(* keys its JSON object holds.                                             *)
(***************************************************************************)
None == "None"

NameG == <<"g">>

NameS == <<"s", "_", "r">>

NameC == <<"c", "T">>

NameM == <<"m">>

Names == {NameG, NameS, NameC, NameM}

\* the data each factor name carries in the documents explored; m holds three
\* categories and two counts
FactorData(name) ==
    IF name = NameM
    THEN [categories |-> <<"x", "y", "z">>, counts |-> <<10, 10>>, type |-> "batch"]
    ELSE IF name = NameG
    THEN [categories |-> <<"KO", "WT">>, counts |-> <<50000, 1000>>,
          type |-> "experimental"]
    ELSE IF name = NameS
    THEN [categories |-> <<"r1", "r2", "r3", "r4">>,
          counts |-> <<5354, 5354, 5354, 5355>>, type |-> "replicate"]
    ELSE [categories |-> <<"B", "M", "T">>, counts |-> <<1500, 2000, 50000>>,
          type |-> "classification"]

Nested(p, c) == [type |-> "nested", parent |-> p, child |-> c]

Classification(f, c) == [type |-> "classification", factor |-> f, classifier |-> c]

Crossed(p, c) == [type |-> "crossed", parent |-> p, child |-> c]

\* the relationship records documents are built from
RelUniverse ==
    { Nested(NameG, NameS), Nested(NameG, NameC), Nested(NameS, NameC),
      Nested(NameC, NameS), Nested(NameS, NameS),
      Classification(NameS, NameC), Classification(NameS, NameG),
      Classification(NameG, NameC), Classification(NameC, NameS),
      Crossed(NameG, NameS) }

MaxRels == 3

\* relationship lists: up to MaxRels distinct records, in any order
RelLists ==
    UNION { { r \in [1..n -> RelUniverse] : \A i, j \in 1..n : i # j => r[i] # r[j] }
            : n \in 0..MaxRels }

\* the declaration orders explored: three factors in two orders, mappings
\* that leave names undefined, and one that holds m
FactorOrders ==
    { <<NameG, NameS, NameC>>, <<NameC, NameS, NameG>>, <<NameS, NameG>>,
      <<NameG, NameC>>, <<NameS, NameC>>, <<NameS>>, <<NameG, NameS, NameM>> }

FactorLists ==
    { [i \in DOMAIN o |-> [name |-> o[i], data |-> FactorData(o[i])]] : o \in FactorOrders }

\* dict.keys(), key in dict, dict[key]
Keys(factors) == { factors[i].name : i \in DOMAIN factors }

Lookup(factors, name) ==
    factors[CHOOSE i \in DOMAIN factors : factors[i].name = name].data

\* rel.get(key)
Get(rel, key) == IF key \in DOMAIN rel THEN rel[key] ELSE None

(***************************************************************************)
(* Graph resolver: find_root_factors.                                      *)
(***************************************************************************)
\* the loop over the relationships: [child_factors, classifier_factors]
RECURSIVE CollectNonRoots(_, _)
CollectNonRoots(relationships, acc) ==
    IF relationships = <<>> THEN acc
    ELSE LET rel == Head(relationships)
             next == IF Get(rel, "type") = "nested"
                     THEN [acc EXCEPT !.child_factors = @ \cup {rel["child"]}]
                     ELSE IF Get(rel, "type") = "crossed"
                     THEN acc
                     ELSE IF Get(rel, "type") = "classification"
                     THEN [acc EXCEPT !.classifier_factors = @ \cup {Get(rel, "classifier")}]
                     ELSE acc
         IN  CollectNonRoots(Tail(relationships), next)

\* RootSet with the child of a crossed relationship taken out of the roots too
RootSet_CrossedRemovesChild(factors, relationships) ==
    LET acc == CollectNonRoots(relationships,
                               [child_factors |-> {}, classifier_factors |-> {}])
        crossed == { relationships[i]["child"] :
                     i \in { j \in DOMAIN relationships :
                                 Get(relationships[j], "type") = "crossed" } }
    IN  ((Keys(factors) \ acc.child_factors) \ acc.classifier_factors) \ crossed

\* roots = all_factors - child_factors - classifier_factors
RootSet(factors, relationships) ==
    LET acc == CollectNonRoots(relationships,
                               [child_factors |-> {}, classifier_factors |-> {}])
    IN  (Keys(factors) \ acc.child_factors) \ acc.classifier_factors

\* every listing of the elements of a set
Orderings(S) ==
    { o \in [1..Cardinality(S) -> S] : \A i, j \in DOMAIN o : i # j => o[i] # o[j] }

\* list(roots): a set of str iterates in the order of its hash table, which
\* changes with the interpreter's hash seed; every order is a possible result
find_root_factors(factors, relationships) ==
    Orderings(RootSet(factors, relationships))

(***************************************************************************)
(* Recursive composer: get_children, get_classifier,                       *)
(* build_grammar_recursive.                                                *)
(***************************************************************************)
\* get_children with each child put in front of the list instead of appended
RECURSIVE get_children_Prepending(_, _, _)
get_children_Prepending(factor, relationships, rel_type) ==
    IF relationships = <<>> THEN <<>>
    ELSE LET rel == Head(relationships)
         IN  get_children_Prepending(factor, Tail(relationships), rel_type)
             \o (IF Get(rel, "type") = rel_type /\ Get(rel, "parent") = factor
                 THEN <<rel["child"]>> ELSE <<>>)

RECURSIVE get_children(_, _, _)
get_children(factor, relationships, rel_type) ==
    IF relationships = <<>> THEN <<>>
    ELSE LET rel == Head(relationships)
         IN  (IF Get(rel, "type") = rel_type /\ Get(rel, "parent") = factor
              THEN <<rel["child"]>> ELSE <<>>)
             \o get_children(factor, Tail(relationships), rel_type)

RECURSIVE get_classifier(_, _)
get_classifier(factor, relationships) ==
    IF relationships = <<>> THEN None
    ELSE LET rel == Head(relationships)
         IN  IF Get(rel, "type") = "classification" /\ Get(rel, "factor") = factor
             THEN Get(rel, "classifier")
             ELSE get_classifier(factor, Tail(relationships))

\* the truth value of an Optional[str]
Truthy(v) == v # None /\ v # <<>>

NestOp == <<" ", ">", " ">>

ClassOp == <<" ", ":", " ">>

\* the operator text of the source line, U+00C3 U+2014 between two blanks
CrossOp == <<" ", "U+00C3", "U+2014", " ">>

\* the factor tokens of the documents explored, computed once
TokenTable ==
    [x \in { <<n, a>> : n \in Names, a \in BOOLEAN } |->
        format_factor_counts(x[1], FactorData(x[1]).categories,
                             FactorData(x[1]).counts, x[2])]

\* format_factor_counts as called by the composer
FactorToken(factor, factor_data, approximate) ==
    IF factor \in Names /\ factor_data = FactorData(factor)
    THEN TokenTable[<<factor, approximate>>]
    ELSE format_factor_counts(factor, factor_data.categories, factor_data.counts,
                              approximate)

\* the deepest chain of build_grammar_recursive frames the interpreter allows
RecursionLimit == 6

Raise(exc, depth) == [exc |-> exc, str |-> <<>>, depth |-> depth]

\* ClassifierSuffix without the test that the classifier is a defined factor:
\* an absent classifier is annotated with zero categories
ClassifierSuffix_AbsentAnnotated(factor, factors, relationships) ==
    LET classifier == get_classifier(factor, relationships)
    IN  IF Truthy(classifier)
        THEN ClassOp \o to_camel_case(classifier) \o <<"(">>
             \o (IF classifier \in Keys(factors)
                 THEN IntToStr(Len(Lookup(factors, classifier).categories))
                 ELSE <<"0">>)
             \o <<")">>
        ELSE <<>>

\* ClassifierSuffix with the classifier formatted like a factor of the hierarchy
ClassifierSuffix_FullToken(factor, factors, relationships) ==
    LET classifier == get_classifier(factor, relationships)
    IN  IF Truthy(classifier) /\ classifier \in Keys(factors)
        THEN ClassOp \o FactorToken(classifier, Lookup(factors, classifier), FALSE)
        ELSE <<>>

\* f"{classifier_name}({n_categories})" appended after " : ", or nothing
ClassifierSuffix(factor, factors, relationships) ==
    LET classifier == get_classifier(factor, relationships)
    IN  IF Truthy(classifier) /\ classifier \in Keys(factors)
        THEN ClassOp \o to_camel_case(classifier) \o <<"(">>
             \o IntToStr(Len(Lookup(factors, classifier).categories)) \o <<")">>
        ELSE <<>>

\* ApproximateFor without the test of the factor's type
ApproximateFor_AnyType(factor_data, use_approximate) == use_approximate

\* approximate=use_approximate and is_classification
ApproximateFor(factor_data, use_approximate) ==
    LET is_classification == factor_data.type = "classification"
    IN  use_approximate /\ is_classification

\* ComposeSubtree with the classifier suffix appended before the children
ComposeSubtree_ClassifierFirst(grammar, child_grammars, classifier_suffix) ==
    grammar
    \o classifier_suffix
    \o (IF child_grammars # <<>> THEN NestOp \o Join(NestOp, child_grammars) ELSE <<>>)

\* the token, then " > " and the children if any, then the classifier suffix
ComposeSubtree(grammar, child_grammars, classifier_suffix) ==
    grammar
    \o (IF child_grammars # <<>> THEN NestOp \o Join(NestOp, child_grammars) ELSE <<>>)
    \o classifier_suffix

RECURSIVE build_grammar_recursive(_, _, _, _, _)
RECURSIVE build_children(_, _, _, _, _)

\* the list comprehension over children: stops at the first call that raises
build_children(children, factors, relationships, use_approximate, depth) ==
    IF children = <<>> THEN [exc |-> "none", strs |-> <<>>, depth |-> depth - 1]
    ELSE The({ IF first.exc # "none"
               THEN [exc |-> first.exc, strs |-> <<>>, depth |-> first.depth]
               ELSE The({ [exc |-> rest.exc,
                           strs |-> IF rest.exc = "none" THEN <<first.str>> \o rest.strs
                                    ELSE <<>>,
                           depth |-> IF first.depth > rest.depth THEN first.depth
                                     ELSE rest.depth]
                          : rest \in {build_children(Tail(children), factors, relationships,
                                                     use_approximate, depth)} })
               : first \in {build_grammar_recursive(Head(children), factors, relationships,
                                                    use_approximate, depth)} })

\* depth is the number of build_grammar_recursive frames, this one included;
\* the result is [exc, str, depth]: the exception raised or "none", the text
\* returned, and the deepest frame reached
build_grammar_recursive(factor, factors, relationships, use_approximate, depth) ==
    IF depth > RecursionLimit THEN Raise("RecursionError", depth - 1)
    ELSE IF factor \notin Keys(factors) THEN Raise("KeyError", depth)
    ELSE LET factor_data == Lookup(factors, factor)
             grammar == FactorToken(factor, factor_data,
                                    ApproximateFor(factor_data, use_approximate))
             children == get_children(factor, relationships, "nested")
         IN  The({ IF children # <<>> /\ built.exc # "none"
                   THEN Raise(built.exc, built.depth)
                   ELSE [exc |-> "none",
                         str |-> ComposeSubtree(grammar, built.strs,
                                                ClassifierSuffix(factor, factors,
                                                                 relationships)),
                         depth |-> IF children # <<>> THEN built.depth ELSE depth]
                   : built \in {build_children(children, factors, relationships,
                                               use_approximate, depth + 1)} })

(***************************************************************************)
(* State.  One call of the module's API per behaviour: either              *)
(* convert_design_to_grammar(design), step by step, or                     *)
(* build_grammar_recursive(arg, factors, relationships, use_approximate),  *)
(* or one of the formatter functions on (factor_name, categories, counts,  *)
(* approximate).                                                           *)
(***************************************************************************)
VARIABLES factors, relationships, pc, call, arg, use_approximate, roots,
          root_grammars, ret, depth, fmt, proc

vars == <<factors, relationships, pc, call, arg, use_approximate, roots,
          root_grammars, ret, depth, fmt, proc>>

NoRet == [kind |-> "none", value |-> <<>>, exc |-> "none"]

Return(text) == [kind |-> "return", value |-> text, exc |-> "none"]

Raised(exc) == [kind |-> "raise", value |-> <<>>, exc |-> exc]

\* fmt: the formatter call, [fn, factor_name, categories, counts, approximate,
\* count, result]
NoFmt ==
    [fn |-> "none", factor_name |-> <<>>, categories |-> <<>>, counts |-> <<>>,
     approximate |-> FALSE, count |-> 0, result |-> None]

\* proc: the process of a command-line entry point, [entry, exit, stdout, stderr]
NoProc == [entry |-> "none", exit |-> None, stdout |-> <<>>, stderr |-> <<>>]

Init ==
    /\ factors \in FactorLists
    /\ relationships \in RelLists
    /\ pc = "start"
    /\ call = "none"
    /\ arg = None
    /\ use_approximate = FALSE
    /\ roots = <<>>
    /\ root_grammars = <<>>
    /\ ret = NoRet
    /\ depth = 0
    /\ fmt = NoFmt
    /\ proc = NoProc

\* convert_design_to_grammar, lines 233-237: roots = find_root_factors(...)
ConvertFindRoots ==
    /\ pc = "start"
    /\ call' = "convert"
    /\ roots' \in find_root_factors(factors, relationships)
    /\ pc' = "roots"
    /\ UNCHANGED <<factors, relationships, arg, use_approximate, root_grammars,
                   ret, depth, fmt, proc>>

\* lines 239-240: raise ValueError("No root factors found ...")
ConvertNoRoots ==
    /\ pc = "roots"
    /\ roots = <<>>
    /\ ret' = Raised("ValueError: No root factors found")
    /\ pc' = "done"
    /\ UNCHANGED <<factors, relationships, call, arg, use_approximate, roots,
                   root_grammars, depth, fmt, proc>>

\* lines 244-246: one turn of the loop over roots; an exception leaves the call
ConvertBuildRoot ==
    /\ pc = "roots"
    /\ Len(root_grammars) < Len(roots)
    /\ LET root == roots[Len(root_grammars) + 1]
           built == build_grammar_recursive(root, factors, relationships, FALSE, 1)
       IN  /\ depth' = IF built.depth > depth THEN built.depth ELSE depth
           /\ IF built.exc = "none"
              THEN /\ root_grammars' = Append(root_grammars, built.str)
                   /\ UNCHANGED <<pc, ret>>
              ELSE /\ ret' = Raised(built.exc)
                   /\ pc' = "done"
                   /\ UNCHANGED root_grammars
    /\ UNCHANGED <<factors, relationships, call, arg, use_approximate, roots, fmt, proc>>

\* lines 249-253: the single root's string, or the roots' strings joined
ConvertReturn ==
    /\ pc = "roots"
    /\ roots # <<>>
    /\ Len(root_grammars) = Len(roots)
    /\ ret' = Return(IF Len(root_grammars) = 1 THEN root_grammars[1]
                     ELSE Join(CrossOp, root_grammars))
    /\ pc' = "done"
    /\ UNCHANGED <<factors, relationships, call, arg, use_approximate, roots,
                   root_grammars, depth, fmt, proc>>

\* a direct call build_grammar_recursive(f, factors, relationships, ua)
BuildCall ==
    /\ pc = "start"
    /\ \E f \in Names, ua \in BOOLEAN :
          LET built == build_grammar_recursive(f, factors, relationships, ua, 1)
          IN  /\ call' = "build"
              /\ arg' = f
              /\ use_approximate' = ua
              /\ depth' = built.depth
              /\ ret' = IF built.exc = "none" THEN Return(built.str) ELSE Raised(built.exc)
    /\ pc' = "done"
    /\ UNCHANGED <<factors, relationships, roots, root_grammars, fmt, proc>>

\* the messages the two entry points print before str(e)
ErrorPrefix(entry) ==
    IF entry = "design_to_grammar" THEN "Error converting design to grammar: "
    ELSE "Error: "

\* main of design_to_grammar.py and of generate_grammar.py after the call of
\* convert_design_to_grammar: print(grammar) and return 0, or the message on
\* standard error and return 1 for any Exception
Main ==
    /\ pc = "done"
    /\ call = "convert"
    /\ \E entry \in {"design_to_grammar", "generate_grammar"} :
          proc' = IF ret.kind = "return"
                  THEN [entry |-> entry, exit |-> 0, stdout |-> ret.value, stderr |-> <<>>]
                  ELSE [entry |-> entry, exit |-> 1, stdout |-> <<>>,
                        stderr |-> <<ErrorPrefix(entry), ret.exc>>]
    /\ pc' = "exit"
    /\ UNCHANGED <<factors, relationships, call, arg, use_approximate, roots,
                   root_grammars, ret, depth, fmt>>

Next ==
    \/ ConvertFindRoots
    \/ ConvertNoRoots
    \/ ConvertBuildRoot
    \/ ConvertReturn
    \/ BuildCall
    \/ Main

Spec == Init /\ [][Next]_vars

(***************************************************************************)
(* The formatter functions called on their own.                            *)
(***************************************************************************)
MaxCounts == 4

\* the count values of one factor are drawn from one of these sets
CountFamilies ==
    { {0, 6, 7}, {100, 130, 200}, {5354, 5355}, {999, 1500, 2000}, {50000, 2000000} }

CountLists ==
    UNION { UNION { [1..n -> F] : n \in 0..MaxCounts } : F \in CountFamilies }

\* category labels c1, c2, ...
Labels(n) == [i \in 1..n |-> <<"c">> \o IntToStr(i)]

FmtInit ==
    /\ fmt \in { [NoFmt EXCEPT !.fn = "input", !.factor_name = NameC, !.counts = c,
                               !.approximate = a]
                 : c \in CountLists, a \in BOOLEAN }
    /\ factors = <<>>
    /\ relationships = <<>>
    /\ pc = "fmt"
    /\ call = "none"
    /\ arg = None
    /\ use_approximate = FALSE
    /\ roots = <<>>
    /\ root_grammars = <<>>
    /\ ret = NoRet
    /\ depth = 0
    /\ proc = NoProc

FmtUnchanged ==
    UNCHANGED <<factors, relationships, pc, call, arg, use_approximate, roots,
                root_grammars, ret, depth, proc>>

\* format_count(count, approximate) on one of the counts
FormatCountCall ==
    /\ fmt.fn = "input"
    /\ \E i \in DOMAIN fmt.counts :
          fmt' = [fmt EXCEPT !.fn = "format_count", !.count = fmt.counts[i],
                             !.result = format_count(fmt.counts[i], fmt.approximate)]
    /\ FmtUnchanged

\* is_balanced(counts)
IsBalancedCall ==
    /\ fmt.fn = "input"
    /\ fmt' = [fmt EXCEPT !.fn = "is_balanced",
                          !.result = is_balanced(fmt.counts, Tolerance)]
    /\ FmtUnchanged

\* format_factor_counts(factor_name, categories, counts, approximate), with as
\* many categories as counts or one more
FormatFactorCountsCall ==
    /\ fmt.fn = "input"
    /\ \E extra \in 0..1 :
          LET categories == Labels(Len(fmt.counts) + extra)
          IN  fmt' = [fmt EXCEPT !.fn = "format_factor_counts",
                                 !.categories = categories,
                                 !.result = format_factor_counts(fmt.factor_name, categories,
                                                                 fmt.counts, fmt.approximate)]
    /\ FmtUnchanged

FmtNext ==
    \/ FormatCountCall
    \/ IsBalancedCall
    \/ FormatFactorCountsCall

SpecFmt == FmtInit /\ [][FmtNext]_vars

(***************************************************************************)
(* Properties.  The definitions below restate the documented behaviour     *)
(* from the document alone and compare it with what the calls returned.    *)
(***************************************************************************)
IsPrefix(p, t) == Len(p) <= Len(t) /\ SubSeq(t, 1, Len(p)) = p

IsSuffix(x, t) == Len(x) <= Len(t) /\ SubSeq(t, Len(t) - Len(x) + 1, Len(t)) = x

Contains(t, x) == \E i \in 1..(Len(t) - Len(x) + 1) : SubSeq(t, i, i + Len(x) - 1) = x

\* the last position of ch in t, 0 when there is none
LastIndexOf(t, ch) ==
    IF \E i \in DOMAIN t : t[i] = ch
    THEN CHOOSE i \in DOMAIN t : t[i] = ch /\ \A j \in DOMAIN t : t[j] = ch => j <= i
    ELSE 0

RelSet == { relationships[i] : i \in DOMAIN relationships }

NestedRels == { r \in RelSet : r.type = "nested" }

ClassificationRels == { r \in RelSet : r.type = "classification" }

Defined == { factors[i].name : i \in DOMAIN factors }

\* (all factor names) - children of nested - classifiers of classification
DocRoots ==
    (Defined \ { r.child : r \in NestedRels }) \ { r.classifier : r \in ClassificationRels }

\* the roots in the declaration order of the factor mapping
DeclaredRoots ==
    SelectSeq([i \in DOMAIN factors |-> factors[i].name], LAMBDA n : n \in DocRoots)

\* the children of f in the declaration order of its nested relationships
DeclaredChildren(f) ==
    LET rels == SelectSeq(relationships, LAMBDA r : r.type = "nested" /\ r.parent = f)
    IN  [i \in DOMAIN rels |-> rels[i].child]

\* the classification relationships of f, in declaration order
DeclaredClassifications(f) ==
    SelectSeq(relationships, LAMBDA r : r.type = "classification" /\ r.factor = f)

\* " : Name(k)", k the number of categories of classifier c
Annotation(c) ==
    ClassOp \o to_camel_case(c) \o <<"(">>
    \o IntToStr(Len(Lookup(factors, c).categories)) \o <<")">>

\* the text a call for f returns, with the flag of the call observed
SubtreeText(f, ua) == build_grammar_recursive(f, factors, relationships, ua, 1).str

\* every factor reached from the set S along nested relationships
RECURSIVE NestedClosure(_, _)
NestedClosure(S, n) ==
    IF n = 0 THEN S
    ELSE NestedClosure(S \cup { r.child : r \in { x \in NestedRels : x.parent \in S } }, n - 1)

ReachedFrom(f) == NestedClosure({f}, Len(relationships))

ConvertDone == pc = "done" /\ call = "convert"

BuildReturned == pc = "done" /\ call = "build" /\ ret.kind = "return"

NoRootsError == ret.kind = "raise" /\ ret.exc = "ValueError: No root factors found"

\* the crossing operator of the documentation, U+00D7 between two blanks
TimesOp == <<" ", "U+00D7", " ">>

\* C1: for a document with two or more roots, convert_design_to_grammar
\* returns the root subtree strings joined by " x " (U+00D7), the roots in the
\* declaration order of the factor mapping.
ClaimC1 ==
    (ConvertDone /\ ret.kind = "return" /\ Len(roots) >= 2)
    => /\ roots = DeclaredRoots
       /\ ret.value = Join(TimesOp, [i \in DOMAIN DeclaredRoots |->
                                        SubtreeText(DeclaredRoots[i], FALSE)])

\* C2: convert_design_to_grammar fails with the no-root-factors error, and
\* returns no string, exactly when (all factor names) - (children of nested
\* relationships) - (classifiers of classification relationships) is empty;
\* a crossed relationship removes no factor from the roots.
TheoremC2 ==
    ConvertDone
    => /\ NoRootsError <=> DocRoots = {}
       /\ NoRootsError => ret.value = <<>> /\ root_grammars = <<>>

\* C2 witness: the error raised for a document that defines factors and holds
\* a crossed relationship
WitnessC2 ==
    /\ ConvertDone
    /\ NoRootsError
    /\ factors # <<>>
    /\ \E r \in RelSet : r.type = "crossed"

\* every nested and classification relationship names defined factors only
OnlyDefinedNames ==
    /\ \A r \in NestedRels : r.parent \in Defined /\ r.child \in Defined
    /\ \A r \in ClassificationRels : r.factor \in Defined /\ r.classifier \in Defined

\* C3: for a document with a root whose relationships name defined factors
\* only, convert_design_to_grammar ends with a grammar string and the chain of
\* build_grammar_recursive frames is never longer than the number of factors,
\* also when nested relationships below a root form a cycle or a self-loop.
ClaimC3 ==
    (ConvertDone /\ DocRoots # {} /\ OnlyDefinedNames)
    => ret.kind = "return" /\ depth <= Len(factors)

\* the token of f itself in a call with the flag ua
OwnToken(f, ua) ==
    FactorToken(f, Lookup(factors, f),
                ua /\ Lookup(factors, f).type = "classification")

\* C4: the string build_grammar_recursive returns for a factor with nested
\* children is the factor's token, " > ", and the children's strings joined
\* by " > " in the declaration order of the nested relationships of that
\* parent; for a factor without children it is the token alone; in both cases
\* followed by nothing more than a classifier annotation.
TheoremC4 ==
    BuildReturned
    => LET kids == DeclaredChildren(arg)
           nesting == OwnToken(arg, use_approximate)
                      \o (IF kids = <<>> THEN <<>>
                          ELSE NestOp \o Join(NestOp, [i \in DOMAIN kids |->
                                                         SubtreeText(kids[i], use_approximate)]))
       IN  ret.value \in {nesting} \cup { nesting \o Annotation(c) : c \in Defined }

\* C4 witness: a call returned for a factor with two children whose strings differ
WitnessC4 ==
    /\ BuildReturned
    /\ Len(DeclaredChildren(arg)) = 2
    /\ SubtreeText(DeclaredChildren(arg)[1], use_approximate)
         # SubtreeText(DeclaredChildren(arg)[2], use_approximate)

\* C5 as stated: whenever the factor has a classification relationship whose
\* classifier is a defined factor, the string ends with " : " and that
\* classifier's token Name(k).
ClaimC5 ==
    BuildReturned
    => \A r \in ClassificationRels :
          (r.factor = arg /\ r.classifier \in Defined)
          => IsSuffix(Annotation(r.classifier), ret.value)

\* C5 amended: when the first classification relationship of the factor, in
\* declaration order, names a defined classifier, the string ends with " : "
\* and the token Name(k) of that classifier, k the number of its categories in
\* plain digits, whatever the classifier's counts and type and the flag are.
TheoremC5 ==
    (BuildReturned /\ DeclaredClassifications(arg) # <<>>)
    => LET first == DeclaredClassifications(arg)[1]
       IN  first.classifier \in Defined
           => /\ IsSuffix(Annotation(first.classifier), ret.value)
              /\ ret.value[Len(ret.value)] = ")"

\* C5 witness: approximate notation requested and the annotation names the
\* classification-type factor with unbalanced counts
WitnessC5 ==
    /\ BuildReturned
    /\ use_approximate
    /\ DeclaredClassifications(arg) # <<>>
    /\ DeclaredClassifications(arg)[1].classifier = NameC
    /\ NameC \in Defined
    /\ ~is_balanced(Lookup(factors, NameC).counts, Tolerance)

\* C6 as stated: in the string composed for a root no nesting operator
\* follows a classifier annotation.
ClaimC6 ==
    \A k \in DOMAIN root_grammars :
        LET g == root_grammars[k]
        IN  ~ \E i, j \in DOMAIN g : i < j /\ g[i] = ":" /\ g[j] = ">"

\* C6 amended: the annotation of a factor is appended after the nesting of
\* that factor is composed, so in the string of a call for a factor with a
\* defined classifier the last " : " stands after every " > "; the
\* annotations of nested factors stay inside their own substrings.
TheoremC6 ==
    (BuildReturned /\ DeclaredClassifications(arg) # <<>>)
    => (DeclaredClassifications(arg)[1].classifier \in Defined
        => LastIndexOf(ret.value, ":") > LastIndexOf(ret.value, ">"))

\* C6 witness: a factor with nested children and a defined classifier
WitnessC6 ==
    /\ BuildReturned
    /\ DeclaredChildren(arg) # <<>>
    /\ DeclaredClassifications(arg) # <<>>
    /\ DeclaredClassifications(arg)[1].classifier \in Defined
    /\ LastIndexOf(ret.value, ">") > 0

\* C9: approximate notation appears only when use_approximate is requested
\* and a factor of type classification is composed; every factor of another
\* type, at any depth, shows the token with its counts as plain integers.
TheoremC9 ==
    BuildReturned
    => /\ \A f \in ReachedFrom(arg) :
             Lookup(factors, f).type # "classification"
             => Contains(ret.value, FactorToken(f, Lookup(factors, f), FALSE))
       /\ Contains(ret.value, <<"~">>)
          => /\ use_approximate
             /\ \E f \in ReachedFrom(arg) : Lookup(factors, f).type = "classification"

\* C9 witness: the flag set, an experimental factor with a count of 50000
\* and a classification factor rendered approximately in the same string
WitnessC9 ==
    /\ BuildReturned
    /\ use_approximate
    /\ NameG \in ReachedFrom(arg)
    /\ Contains(ret.value, <<"5", "0", "0", "0", "0">>)
    /\ Contains(ret.value, <<"~">>)

\* Name(k), k the number of categories
BalancedForm(name, categories) ==
    to_camel_case(name) \o <<"(">> \o IntToStr(Len(categories)) \o <<")">>

\* Name[c1|c2|...|cn], every count as a plain integer
UnbalancedForm(name, counts) ==
    to_camel_case(name) \o <<"[">>
    \o Join(<<"|">>, [i \in DOMAIN counts |-> IntToStr(counts[i])]) \o <<"]">>

\* |c - S/n| <= (1/10) * S/n in exact arithmetic, S the sum and n the length
WithinTenPercent(counts) ==
    LET n == Len(counts)
        S == Sum(counts)
        Abs(x) == IF x < 0 THEN -x ELSE x
    IN  \A i \in DOMAIN counts : 10 * Abs(counts[i] * n - S) <= S

BalancedByRule(counts) ==
    Len(counts) <= 1 \/ Sum(counts) = 0 \/ WithinTenPercent(counts)

\* C7: format_factor_counts emits the balanced form Name(k) exactly when
\* every count deviates from the arithmetic mean by at most 10% of the mean,
\* or the list is empty, has one element or has mean zero; otherwise it emits
\* the unbalanced form listing every count.
ClaimC7 ==
    fmt.fn = "format_factor_counts"
    => IF BalancedByRule(fmt.counts)
       THEN fmt.result = BalancedForm(fmt.factor_name, fmt.categories)
       ELSE fmt.result # BalancedForm(fmt.factor_name, fmt.categories)
            /\ (~fmt.approximate
                => fmt.result = UnbalancedForm(fmt.factor_name, fmt.counts))

\* C8: the counts [5354,5354,5354,5355] are rendered by format_factor_counts
\* in the unbalanced form Name[5354|5354|5354|5355], not as Name(4).
ClaimC8 ==
    (fmt.fn = "format_factor_counts" /\ fmt.counts = <<5354, 5354, 5354, 5355>>
     /\ ~fmt.approximate)
    => /\ fmt.result = UnbalancedForm(fmt.factor_name, <<5354, 5354, 5354, 5355>>)
       /\ fmt.result # BalancedForm(fmt.factor_name, fmt.categories)

\* C10: format_count in approximate mode renders a value from 1000 as
\* ~<value/1e3>k, from 1,000,000 as ~<value/1e6>m, with one decimal digit at
\* most and a trailing ".0" stripped (1500 gives ~1.5k, 2000 gives ~2k);
\* without approximate mode or below 1000 it renders the plain integer.
ClaimC10 ==
    fmt.fn = "format_count"
    => IF fmt.approximate /\ fmt.count >= Thousand
       THEN LET unit == IF fmt.count >= Million THEN Million ELSE Thousand
                suffix == IF fmt.count >= Million THEN "m" ELSE "k"
                whole == IntToStr(fmt.count \div unit)
                tenth == IntToStr(((fmt.count * 10) \div unit) % 10)
            IN  /\ fmt.count % unit = 0
                   => fmt.result = <<"~">> \o whole \o <<suffix>>
                /\ (fmt.count % unit # 0 /\ (fmt.count * 10) % unit = 0)
                   => fmt.result = <<"~">> \o whole \o <<".">> \o tenth \o <<suffix>>
       ELSE fmt.result = IntToStr(fmt.count)

\* the token of f and the strings of its nested children, with no annotation
NestingText(f, ua) ==
    LET kids == DeclaredChildren(f)
    IN  OwnToken(f, ua)
        \o (IF kids = <<>> THEN <<>>
            ELSE NestOp \o Join(NestOp, [i \in DOMAIN kids |-> SubtreeText(kids[i], ua)]))

\* the relationship list without the classification relationships of f
WithoutClassificationsOf(f) ==
    SelectSeq(relationships, LAMBDA r : ~(r.type = "classification" /\ r.factor = f))

BuildDone == pc = "done" /\ call = "build"

\* C11 as stated: whenever a classification relationship of the factor names
\* a classifier absent from the factor mapping, the returned string carries
\* no classifier annotation for the factor.
ClaimC11 ==
    BuildReturned
    => \A r \in ClassificationRels :
          (r.factor = arg /\ r.classifier \notin Defined)
          => ret.value = NestingText(arg, use_approximate)

\* C11 amended: when the first classification relationship of a defined
\* factor, in declaration order, names a classifier absent from the factor
\* mapping, the call ends as it does for the document without the
\* classification relationships of that factor: the same string, made of the
\* factor tokens and the nesting only, or the same exception; the absent
\* classifier itself raises nothing.
TheoremC11 ==
    (BuildDone /\ arg \in Defined /\ DeclaredClassifications(arg) # <<>>)
    => (DeclaredClassifications(arg)[1].classifier \notin Defined
        => LET plain == build_grammar_recursive(arg, factors,
                                                WithoutClassificationsOf(arg),
                                                use_approximate, 1)
           IN  /\ ret.kind = "return" <=> plain.exc = "none"
               /\ ret.kind = "return"
                  => ret.value = plain.str
                     /\ ret.value = NestingText(arg, use_approximate)
               /\ ret.kind = "raise" => ret.exc = plain.exc)

\* C11 witness: a factor with nested children whose first classification
\* relationship names an absent classifier, and the call returned
WitnessC11 ==
    /\ BuildReturned
    /\ DeclaredChildren(arg) # <<>>
    /\ DeclaredClassifications(arg) # <<>>
    /\ DeclaredClassifications(arg)[1].classifier \notin Defined

\* some factor of the document has categories and counts of different lengths
LengthMismatch ==
    \E i \in DOMAIN factors :
        Len(factors[i].data.categories) # Len(factors[i].data.counts)

\* C12: a document in which a factor's categories and counts have different
\* lengths is reported as malformed: convert_design_to_grammar fails and
\* returns no grammar string for it.
ClaimC12 ==
    (ConvertDone /\ LengthMismatch) => ret.kind = "raise" /\ ret.value = <<>>

\* some nested parent, nested child or classifier is absent from the mapping
NamesAbsentFactor ==
    \/ \E r \in NestedRels : r.parent \notin Defined \/ r.child \notin Defined
    \/ \E r \in ClassificationRels : r.classifier \notin Defined

\* C13: an entry point writes the grammar string to standard output and
\* exits 0 only when compilation succeeds; for a document with no root
\* factor, or with a relationship whose nested parent, nested child or
\* classifier is absent from the factor mapping, it exits non-zero, writes a
\* diagnostic to standard error and writes no grammar string.
ClaimC13 ==
    pc = "exit"
    => /\ proc.exit = 0 => ret.kind = "return" /\ proc.stdout = ret.value
       /\ (DocRoots = {} \/ NamesAbsentFactor)
          => proc.exit # 0 /\ proc.stderr # <<>> /\ proc.stdout = <<>>

\* the number of places of t where x occurs
CountOccurrences(t, x) ==
    Cardinality({ i \in 1..(Len(t) - Len(x) + 1) : SubSeq(t, i, i + Len(x) - 1) = x })

\* no factor is the child of two nested relationships
AtMostOneParent ==
    \A f \in Defined : Cardinality({ r \in NestedRels : r.child = f }) <= 1

Classifiers == { r.classifier : r \in ClassificationRels }

\* C14: for a document whose relationships name defined factors only and in
\* which no factor has more than one nested parent, the string returned by
\* convert_design_to_grammar holds the own token of every factor that is not
\* a classifier exactly once: none is dropped, none is duplicated.
ClaimC14 ==
    (ConvertDone /\ ret.kind = "return" /\ OnlyDefinedNames /\ AtMostOneParent)
    => \A f \in Defined \ Classifiers :
          CountOccurrences(ret.value, OwnToken(f, FALSE)) = 1

\* convert_design_to_grammar with the roots taken in the order o
ConvertWithRoots(fs, rels, o) ==
    IF o = <<>> THEN Raised("ValueError: No root factors found")
    ELSE LET built == [i \in DOMAIN o |-> build_grammar_recursive(o[i], fs, rels, FALSE, 1)]
             failed == { i \in DOMAIN o : built[i].exc # "none" }
         IN  IF failed # {}
             THEN Raised(built[CHOOSE i \in failed : \A j \in failed : i <= j].exc)
             ELSE Return(IF Len(o) = 1 THEN built[1].str
                         ELSE Join(CrossOp, [i \in DOMAIN o |-> built[i].str]))

\* every outcome convert_design_to_grammar can have for a document
ConvertOutcomes(fs, rels) ==
    { ConvertWithRoots(fs, rels, o) : o \in find_root_factors(fs, rels) }

\* the (parent, child) pairs of the nested relationships of a list
NestedPairs(rels) ==
    { <<rels[i].parent, rels[i].child>> : i \in { j \in DOMAIN rels : rels[j].type = "nested" } }

\* the factors reached from the set S along the pairs P in at most n steps
RECURSIVE ReachedAlong(_, _, _)
ReachedAlong(P, S, n) ==
    IF n = 0 THEN S
    ELSE ReachedAlong(P, S \cup { p[2] : p \in { q \in P : q[1] \in S } }, n - 1)

\* a list of nested relationships between defined factors that forms a
\* forest: no cycle, no factor with two parents
NestingForest(rels) ==
    LET P == NestedPairs(rels)
    IN  /\ \A i \in DOMAIN rels : rels[i].type = "nested"
        /\ \A p \in P : p[1] \in Defined /\ p[2] \in Defined
        /\ \A p, q \in P : p[2] = q[2] => p = q
        /\ \A p \in P : p[1] \notin ReachedAlong(P, {p[2]}, Len(rels))

\* C15: the grammar string determines the nesting structure: for a fixed
\* factor mapping, two acyclic lists of nested relationships in which every
\* factor has at most one parent and which describe different nesting trees
\* never yield the same string from convert_design_to_grammar.
ClaimC15 ==
    (ConvertDone /\ ret.kind = "return" /\ NestingForest(relationships))
    => \A other \in RelLists :
          (NestingForest(other) /\ NestedPairs(other) # NestedPairs(relationships))
          => Return(ret.value) \notin ConvertOutcomes(factors, other)

====
